---- MODULE Spec2Model ----
(***************************************************************************)
(* A model of scripts/esg_10k_extraction.py: the SEC EDGAR fetcher, the    *)
(* keyword span extractor, the metrics aggregator and the report driver.   *)
(*                                                                         *)
(* Text is a sequence of one-character strings.  Three specifications:     *)
(*   Spec         the report driver main() over the company catalog        *)
(*   SpecExtract  extract_esg_sections on a family of input documents      *)
(*   SpecMetrics  analyze_esg_disclosure on a family of span lists         *)
(***************************************************************************)
EXTENDS Integers, Sequences, FiniteSets, TLC

VARIABLES
  pc,             \* main(): "list", "pause_short", "fetch", "extract", "pause_long",
                  \*         "summary", "done", or "raised" when an exception ended it
  ci,             \* index in COMPANIES of the company of the current iteration
  filing,         \* filings[0] of the current iteration
  content,        \* the downloaded filing of the current iteration
  all_results,    \* the dict of line 152, as the sequence of its items
  summary_data,   \* the rows of line 210
  artifact,       \* esg_extraction_results.json
  trace,          \* the outbound HTTP requests and the sleeps, in order
  error,          \* the exception that ended the run, or "none"
  xpc,            \* extract_esg_sections: "start", "scan" or "done"
  html_content,   \* its argument
  text,           \* the normalized text (lines 101-104)
  esg,            \* results, and for each append the keyword it was made for
  mpc,            \* analyze_esg_disclosure: "start" or "done"
  esg_data,       \* its argument
  metrics         \* its return value

dvars == <<pc, ci, filing, content, all_results, summary_data, artifact, trace, error>>

xvars == <<xpc, html_content, text, esg>>

mvars == <<mpc, esg_data, metrics>>

vars == <<dvars, xvars, mvars>>

----------------------------------------------------------------------------
(* Characters                                                              *)

\* str.lower on the letters that occur in the inputs (re.IGNORECASE folds case)
UpperChars ==
  {"A","B","C","D","E","F","G","H","I","J","K","L","M",
   "N","O","P","Q","R","S","T","U","V","W","X","Y","Z"}

ToLower ==
  [c \in UpperChars |->
     CASE c = "A" -> "a" [] c = "B" -> "b" [] c = "C" -> "c" [] c = "D" -> "d"
       [] c = "E" -> "e" [] c = "F" -> "f" [] c = "G" -> "g" [] c = "H" -> "h"
       [] c = "I" -> "i" [] c = "J" -> "j" [] c = "K" -> "k" [] c = "L" -> "l"
       [] c = "M" -> "m" [] c = "N" -> "n" [] c = "O" -> "o" [] c = "P" -> "p"
       [] c = "Q" -> "q" [] c = "R" -> "r" [] c = "S" -> "s" [] c = "T" -> "t"
       [] c = "U" -> "u" [] c = "V" -> "v" [] c = "W" -> "w" [] c = "X" -> "x"
       [] c = "Y" -> "y" [] c = "Z" -> "z"]

Lower(c) == IF c \in UpperChars THEN ToLower[c] ELSE c

\* \w of the re module: letters, digits and the underscore
WordChars ==
  {"a","b","c","d","e","f","g","h","i","j","k","l","m",
   "n","o","p","q","r","s","t","u","v","w","x","y","z",
   "0","1","2","3","4","5","6","7","8","9","_"} \cup UpperChars

IsWordChar(c) == c \in WordChars

\* \s of the re module and the characters str.strip removes
Whitespace == {" ", "\t", "\n", "\r"}

IsSpace(c) == c \in Whitespace

MinOf(S) == CHOOSE m \in S : \A o \in S : m <= o

MaxOf(S) == CHOOSE m \in S : \A o \in S : m >= o

----------------------------------------------------------------------------
(* Program constants                                                       *)

\* COMPANIES, in dict order
COMPANIES ==
  << [company |-> "Apple",             cik |-> <<"0","0","0","0","3","2","0","1","9","3">>],
     [company |-> "Alphabet (Google)", cik |-> <<"0","0","0","1","6","5","2","0","4","4">>],
     [company |-> "Tesla",             cik |-> <<"0","0","0","1","3","1","8","6","0","5">>] >>

\* ESG_KEYWORDS: category -> ordered keyword phrases
ESG_KEYWORDS ==
  [Environmental |-> <<
      <<"c","l","i","m","a","t","e"," ","c","h","a","n","g","e">>,
      <<"c","a","r","b","o","n"," ","e","m","i","s","s","i","o","n","s">>,
      <<"g","r","e","e","n","h","o","u","s","e"," ","g","a","s">>,
      <<"r","e","n","e","w","a","b","l","e"," ","e","n","e","r","g","y">>,
      <<"e","n","v","i","r","o","n","m","e","n","t","a","l"," ","i","m","p","a","c","t">>,
      <<"s","u","s","t","a","i","n","a","b","i","l","i","t","y">>,
      <<"c","a","r","b","o","n"," ","f","o","o","t","p","r","i","n","t">>,
      <<"n","e","t"," ","z","e","r","o">>,
      <<"c","l","e","a","n"," ","e","n","e","r","g","y">>,
      <<"e","n","v","i","r","o","n","m","e","n","t","a","l"," ","m","a","t","t","e","r","s">>,
      <<"c","l","i","m","a","t","e"," ","r","i","s","k">>,
      <<"e","m","i","s","s","i","o","n","s"," ","r","e","d","u","c","t","i","o","n">> >>,
   Social |-> <<
      <<"h","u","m","a","n"," ","c","a","p","i","t","a","l">>,
      <<"e","m","p","l","o","y","e","e">>,
      <<"w","o","r","k","f","o","r","c","e">>,
      <<"d","i","v","e","r","s","i","t","y">>,
      <<"i","n","c","l","u","s","i","o","n">>,
      <<"h","e","a","l","t","h"," ","a","n","d"," ","s","a","f","e","t","y">>,
      <<"l","a","b","o","r"," ","p","r","a","c","t","i","c","e","s">>,
      <<"c","o","m","m","u","n","i","t","y">>,
      <<"h","u","m","a","n"," ","r","i","g","h","t","s">>,
      <<"e","m","p","l","o","y","e","e"," ","b","e","n","e","f","i","t","s">>,
      <<"t","a","l","e","n","t">>,
      <<"w","o","r","k","p","l","a","c","e">> >>,
   Governance |-> <<
      <<"b","o","a","r","d"," ","o","f"," ","d","i","r","e","c","t","o","r","s">>,
      <<"c","o","r","p","o","r","a","t","e"," ","g","o","v","e","r","n","a","n","c","e">>,
      <<"e","t","h","i","c","s">>,
      <<"c","o","m","p","l","i","a","n","c","e">>,
      <<"r","i","s","k"," ","m","a","n","a","g","e","m","e","n","t">>,
      <<"a","u","d","i","t"," ","c","o","m","m","i","t","t","e","e">>,
      <<"e","x","e","c","u","t","i","v","e"," ","c","o","m","p","e","n","s","a","t","i","o","n">>,
      <<"s","h","a","r","e","h","o","l","d","e","r"," ","r","i","g","h","t","s">>,
      <<"a","n","t","i","-","c","o","r","r","u","p","t","i","o","n">>,
      <<"c","o","d","e"," ","o","f"," ","c","o","n","d","u","c","t">> >>]

\* iteration order of the ESG_KEYWORDS dict, and the list of analyze_esg_disclosure
Categories == <<"Environmental", "Social", "Governance">>

EmptyResults == [c \in {"Environmental", "Social", "Governance"} |-> <<>>]

\* len(cleaned) > 50
MinSpanLen == 50

\* len(cleaned) < 500
MaxSpanLen == 500

\* matches[:3]
MatchesPerKeyword == 3

----------------------------------------------------------------------------
(* Text helpers                                                            *)

\* str.strip(): drop leading and trailing whitespace
Strip(s) ==
  LET keep == {i \in 1..Len(s) : ~IsSpace(s[i])}
  IN  IF keep = {} THEN <<>> ELSE SubSeq(s, MinOf(keep), MaxOf(keep))

\* re.sub(r'\s+', ' ', text) on s[lo..hi]: every whitespace run becomes one space
RECURSIVE CollapseRange(_, _, _)
CollapseRange(s, lo, hi) ==
  IF lo > hi THEN <<>>
  ELSE IF lo = hi
       THEN IF IsSpace(s[lo])
            THEN IF lo > 1 /\ IsSpace(s[lo - 1]) THEN <<>> ELSE <<" ">>
            ELSE <<s[lo]>>
       ELSE LET mid == (lo + hi) \div 2
            IN  CollapseRange(s, lo, mid) \o CollapseRange(s, mid + 1, hi)

CollapseWhitespace(s) == CollapseRange(s, 1, Len(s))

\* BeautifulSoup(...).get_text(separator=' ', strip=True) of a document without
\* markup: the single text node, stripped
GetText(html) == Strip(html)

\* lines 98-104: the normalized text the keyword scan runs on
NormalizedText(html) == CollapseWhitespace(GetText(html))

----------------------------------------------------------------------------
(* The pattern  [^.]*\bKEYWORD\b[^.]*\.  under re.findall with re.IGNORECASE  *)

\* re.IGNORECASE compares case-folded characters
LowerSeq(s) == [i \in 1..Len(s) |-> Lower(s[i])] \o <<>>

Periods(t) == {i \in 1..Len(t) : t[i] = "."}

\* what one re.findall call reads of the text: its characters, their case-folded
\* form, and where its periods are
Scanned(t) == [chars |-> t, lower |-> LowerSeq(t), periods |-> Periods(t)]

\* the literal keyword (re.escape) matches at i, ignoring case
KeywordAt(lt, lk, i) ==
  /\ i + Len(lk) - 1 <= Len(lt)
  /\ \A j \in 1..Len(lk) : lt[i + j - 1] = lk[j]

\* the pattern without its \b
WordBoundary_Absent(t, i) == TRUE

\* \b at the gap before position i: exactly one neighbour is a word character
WordBoundary(t, i) ==
  LET before == i > 1 /\ IsWordChar(t[i - 1])
      after  == i <= Len(t) /\ IsWordChar(t[i])
  IN  before # after

\* \bKEYWORD\b matches at i
WholeWordAt(sc, lk, i) ==
  /\ KeywordAt(sc.lower, lk, i)
  /\ WordBoundary(sc.chars, i)
  /\ WordBoundary(sc.chars, i + Len(lk))

\* positions where \bKEYWORD\b matches
KeywordStarts(sc, lk) ==
  LET lt == sc.lower
      first == lk[1]
  IN  {i \in {j \in 1..Len(lt) : lt[j] = first} : WholeWordAt(sc, lk, i)}

\* re.findall: the non-overlapping matches, leftmost first.  A match that begins
\* at p is [^.]* (no period from p up to the keyword), the keyword at a word
\* boundary, [^.]* again, and the first period after the keyword.
RECURSIVE FindFrom(_, _, _, _)
FindFrom(sc, len, starts, from) ==
  LET \* keyword occurrences that a period follows
      closed == {i \in starts : \E e \in sc.periods : e >= i + len}
      \* the occurrences a match beginning at p can use
      KeywordFor(p) == {i \in closed : i >= p /\ \A q \in sc.periods : q < p \/ q >= i}
      \* the positions a match can begin at
      begins == UNION {{p \in from..i : \A q \in sc.periods : q < p \/ q >= i} : i \in closed}
  IN  IF begins = {} THEN <<>>
      ELSE LET p == MinOf(begins)
               i == MaxOf(KeywordFor(p))    \* the first [^.]* is greedy
               e == MinOf({q \in sc.periods : q >= i + len})
           IN  <<SubSeq(sc.chars, p, e)>> \o FindFrom(sc, len, starts, e + 1)

\* line 116-117: re.findall(pattern, text, re.IGNORECASE)
FindIn(sc, k) == FindFrom(sc, Len(k), KeywordStarts(sc, LowerSeq(k)), 1)

FindAll(t, k) == FindIn(Scanned(t), k)

----------------------------------------------------------------------------
(* extract_esg_sections                                                    *)

InList(s, list) == \E i \in 1..Len(list) : list[i] = s

\* the length filter with inclusive bounds
AcceptLength_Inclusive(cleaned) == Len(cleaned) >= MinSpanLen /\ Len(cleaned) <= MaxSpanLen

\* line 121: len(cleaned) > 50 and len(cleaned) < 500
AcceptLength(cleaned) == Len(cleaned) > MinSpanLen /\ Len(cleaned) < MaxSpanLen

\* the append without the membership test
AcceptNew_Always(cleaned, list) == TRUE

\* line 122: cleaned not in results[category]
AcceptNew(cleaned, list) == ~InList(cleaned, list)

\* the loop over all matches, without the slice
FirstMatches_All(matches) == matches

\* line 119: matches[:3]
FirstMatches(matches) ==
  SubSeq(matches, 1, IF Len(matches) < MatchesPerKeyword THEN Len(matches)
                     ELSE MatchesPerKeyword)

\* lines 119-123: the loop over the kept matches of one keyword
RECURSIVE AppendMatches(_, _, _)
AppendMatches(list, matches, j) ==
  IF j > Len(matches) THEN list
  ELSE LET cleaned == Strip(matches[j])
       IN  AppendMatches(IF AcceptLength(cleaned) /\ AcceptNew(cleaned, list)
                         THEN Append(list, cleaned) ELSE list,
                         matches, j + 1)

\* lines 113-123: the body of the two nested loops for the keyword at st.ki of
\* the category at st.n, and the step to the next keyword.  st.results is the
\* dict being built; st.added records, per append, the category and keyword it
\* was made for.
ScanKeyword(st, sc) ==
  LET category == Categories[st.n]
      keyword == ESG_KEYWORDS[category][st.ki]
      old == st.results[category]
      new == AppendMatches(old, FirstMatches(FindIn(sc, keyword)), 1)
      last == st.ki = Len(ESG_KEYWORDS[category])
  IN  [results |-> [st.results EXCEPT ![category] = new],
       added   |-> st.added \o
                   [j \in 1..(Len(new) - Len(old)) |->
                      [category |-> category, ki |-> st.ki, span |-> new[Len(old) + j]]],
       n       |-> IF last THEN st.n + 1 ELSE st.n,
       ki      |-> IF last THEN 1 ELSE st.ki + 1]

\* lines 113-114: for category, keywords in ESG_KEYWORDS.items(): for keyword in
\* keywords
RECURSIVE ScanKeywords(_, _)
ScanKeywords(st, sc) ==
  IF st.n > Len(Categories) THEN st ELSE ScanKeywords(ScanKeyword(st, sc), sc)

\* lines 106-110: the empty list of each category, before the first keyword
ScanStart == [results |-> EmptyResults, added |-> <<>>, n |-> 1, ki |-> 1]

\* lines 106-125 on the normalized text
ExtractFromText(t) == ScanKeywords(ScanStart, Scanned(t))

extract_esg_sections(html) == ExtractFromText(NormalizedText(html)).results

----------------------------------------------------------------------------
(* Python's int / int: the quotient rounded to the nearest IEEE-754 double.    *)
(* A double is [mant, frac]: a 53-bit integer, most significant bit first,     *)
(* over 2^frac; 0.0 has the empty mantissa.                                     *)

\* significand width of a double
MantBits == 53

\* the binary digits of n, most significant first, <<>> for 0
RECURSIVE Bits(_)
Bits(n) == IF n = 0 THEN <<>> ELSE Append(Bits(n \div 2), n % 2)

Zeros(n) == [i \in 1..n |-> 0]

Front(s) == SubSeq(s, 1, Len(s) - 1)

Last(s) == s[Len(s)]

\* bits + 1
Increment(bits) ==
  LET zeros == {i \in 1..Len(bits) : bits[i] = 0}
  IN  IF zeros = {} THEN <<1>> \o Zeros(Len(bits))
      ELSE LET z == MaxOf(zeros)
           IN  SubSeq(bits, 1, z - 1) \o <<1>> \o Zeros(Len(bits) - z)

\* 2^i mod b, by squaring
RECURSIVE Pow2Mod(_, _)
Pow2Mod(i, b) ==
  IF i = 0 THEN 1 % b
  ELSE LET h == Pow2Mod(i \div 2, b)
       IN  (h * h * (IF i % 2 = 1 THEN 2 ELSE 1)) % b

\* the i-th binary digit after the point of r / b, for 0 <= r < b
FracBit(r, b, i) == (2 * ((r * Pow2Mod(i - 1, b)) % b)) \div b

\* round to nearest, ties to even, given whether the dropped part is above,
\* at or below one half
RoundNearestEven(mant, frac, above, half) ==
  IF above \/ (half /\ Last(mant) = 1)
  THEN LET up == Increment(mant)
       IN  IF Len(up) > MantBits THEN [mant |-> Front(up), frac |-> frac - 1]
           ELSE [mant |-> up, frac |-> frac]
  ELSE [mant |-> mant, frac |-> frac]

FloatZero == [mant |-> <<>>, frac |-> 0]

\* float(a // b): floor division where true division was meant
FloatDiv_Floor(a, b) ==
  IF a \div b = 0 THEN FloatZero
  ELSE LET q == Bits(a \div b)
       IN  [mant |-> q \o Zeros(MantBits - Len(q)), frac |-> MantBits - Len(q)]

\* a / b for integers a >= 0, b > 0: the first 53 significant digits of the
\* binary expansion, rounded on what follows them
FloatDiv(a, b) ==
  IF a = 0 THEN FloatZero
  ELSE LET whole == Bits(a \div b)
           r     == a % b
           \* zeros between the point and the first 1, when a < b
           lead  == IF whole # <<>> THEN 0
                    ELSE MinOf({i \in 1..31 : FracBit(r, b, i) = 1}) - 1
           frac  == IF whole # <<>> THEN MantBits - Len(whole) ELSE lead + MantBits
           mant  == whole \o [i \in 1..(frac - lead) |-> FracBit(r, b, lead + i)]
           rem   == (r * Pow2Mod(frac, b)) % b
       IN  RoundNearestEven(mant, frac, 2 * rem > b, 2 * rem = b)

----------------------------------------------------------------------------
(* analyze_esg_disclosure                                                  *)

\* items[0][:200]
SampleLen == 200

Ellipsis == <<".", ".", ".">>

NoDisclosure == <<"N","o"," ","d","i","s","c","l","o","s","u","r","e"," ","f","o","u","n","d">>

RECURSIVE SumLen(_, _)
SumLen(items, j) == IF j > Len(items) THEN 0 ELSE Len(items[j]) + SumLen(items, j + 1)

\* esg_data.get(category, [])
ItemsOf(data, category) == IF category \in DOMAIN data THEN data[category] ELSE <<>>

\* line 136; the int 0 of an empty list is [int |-> 0]
AvgLength(items) ==
  IF items # <<>> THEN [float |-> FloatDiv(SumLen(items, 1), Len(items))] ELSE [int |-> 0]

\* line 137
Sample(items) ==
  IF items # <<>>
  THEN SubSeq(items[1], 1, IF Len(items[1]) < SampleLen THEN Len(items[1]) ELSE SampleLen)
       \o Ellipsis
  ELSE NoDisclosure

\* lines 130-140
analyze_esg_disclosure(data) ==
  [category \in {"Environmental", "Social", "Governance"} |->
     LET items == ItemsOf(data, category)
     IN  [disclosure_count |-> Len(items),
          avg_length       |-> AvgLength(items),
          sample           |-> Sample(items)]]

----------------------------------------------------------------------------
(* get_company_filings and get_filing_content                              *)

\* {}
EmptyDict == [k \in {} |-> <<>>]

\* dict.get(key, default)
DictGet(d, key, default) == IF key \in DOMAIN d THEN d[key] ELSE default

\* str.replace('-', '')
RemoveDashes(str) ==
  LET NotDash(c) == c # "-"
  IN  SelectSeq(str, NotDash)

\* str.lstrip('0')
LStripZeros(str) ==
  LET keep == {i \in 1..Len(str) : str[i] # "0"}
  IN  IF keep = {} THEN <<>> ELSE SubSeq(str, MinOf(keep), Len(str))

\* lines 71-79: the loop over forms; accessions[i], dates[i] and docs[i] raise
\* IndexError past the end of their list
RECURSIVE CollectFilings(_, _, _, _)
CollectFilings(recent, q, i, results) ==
  IF i > Len(recent.forms) THEN [raised |-> "none", results |-> results]
  ELSE IF recent.forms[i] = q.filing_type /\ Len(results) < q.count
       THEN IF \/ i > Len(recent.accessions)
               \/ i > Len(recent.dates)
               \/ i > Len(recent.docs)
            THEN [raised |-> "IndexError", results |-> <<>>]
            ELSE CollectFilings(recent, q, i + 1,
                   Append(results, [form      |-> recent.forms[i],
                                    accession |-> RemoveDashes(recent.accessions[i]),
                                    date      |-> recent.dates[i],
                                    document  |-> recent.docs[i],
                                    cik       |-> q.cik]))
       ELSE CollectFilings(recent, q, i + 1, results)

\* lines 58-81, given the response of line 57
get_company_filings(response, cik, filing_type, count) ==
  IF response.status_code # 200 THEN [raised |-> "none", results |-> <<>>]
  ELSE LET filings == DictGet(DictGet(response.json, "filings", EmptyDict), "recent", EmptyDict)
       IN  CollectFilings([forms      |-> DictGet(filings, "form", <<>>),
                           accessions |-> DictGet(filings, "accessionNumber", <<>>),
                           dates      |-> DictGet(filings, "filingDate", <<>>),
                           docs       |-> DictGet(filings, "primaryDocument", <<>>)],
                          [cik |-> cik, filing_type |-> filing_type, count |-> count],
                          1, <<>>)

\* line 55
SubmissionsUrl(cik) == [host |-> "data.sec.gov", cik |-> cik]

\* line 86
ArchiveUrl(cik, accession, document) ==
  [host |-> "www.sec.gov", cik |-> LStripZeros(cik), accession |-> accession,
   document |-> document]

\* None, and a str value
None == [none |-> TRUE]

Str(chars) == [none |-> FALSE, text |-> chars]

\* lines 89-93, given the response of line 88
get_filing_content(response) ==
  IF response.status_code # 200 THEN None ELSE Str(response.text)

\* line 162, `not filings`: the empty list is falsy
NoFilings(filings) == filings = <<>>

\* line 177, `not content`: None and the empty string are falsy
NoContent(got) == got.none \/ got.text = <<>>

----------------------------------------------------------------------------
(* The responses the two endpoints can give                                *)

Filler(n) == [i \in 1..n |-> "x"]

\* head, filler words and a period: n characters in all
Sentence(head, n) ==
  head \o (IF n > Len(head) + 1 THEN <<" ">> \o Filler(n - Len(head) - 2) ELSE <<>>) \o <<".">>

\* a submissions document lists at most this many filings
MaxFilings == 2

FormTypes == {"10-K", "10-Q"}

Digits == <<"1", "2", "3", "4", "5", "6", "7", "8", "9">>

\* the i-th entry of each parallel list
AccessionAt(i) == <<"0", "0", "-", "2", "3", "-", Digits[i]>>

DateAt(i) == <<"2", "0", "2", "3", "-", "1", "1", "-", "0", Digits[i]>>

DocumentAt(i) == <<"f", Digits[i], ".", "h", "t", "m">>

\* a key of the dict: absent, or present with a list
Absent == [present |-> FALSE, value |-> <<>>]

Present(list) == [present |-> TRUE, value |-> list]

\* the values one key of the parallel lists can have
ListsOf(key) ==
  LET At(i) == CASE key = "accessionNumber" -> AccessionAt(i)
                 [] key = "filingDate" -> DateAt(i)
                 [] key = "primaryDocument" -> DocumentAt(i)
  IN  {Absent} \cup {Present([i \in 1..n |-> At(i)]) : n \in 0..MaxFilings}

FormLists == {Absent} \cup {Present(f) : f \in UNION {[1..n -> FormTypes] : n \in 0..MaxFilings}}

\* the dict holding the present keys
DictOf(entry) == [k \in {key \in DOMAIN entry : entry[key].present} |-> entry[k].value]

RecentDicts ==
  {DictOf([form |-> f, accessionNumber |-> a, filingDate |-> d, primaryDocument |-> p]) :
   f \in FormLists, a \in ListsOf("accessionNumber"), d \in ListsOf("filingDate"),
   p \in ListsOf("primaryDocument")}

\* the JSON of a 200 response of the submissions endpoint: well-formed, with keys
\* missing, or with parallel lists of different lengths
SubmissionsJson ==
  {EmptyDict, [filings |-> EmptyDict]} \cup {[filings |-> [recent |-> r]] : r \in RecentDicts}

\* non-success statuses
ErrorStatuses == {404, 503}

D_employees == <<"e","m","p","l","o","y","e","e","s"," ","x",".">>

\* the text of a 200 response of the archive endpoint
FilingTexts ==
  { <<>>,
    D_employees,
    <<" ">> \o Sentence(<<"e","m","p","l","o","y","e","e"," ","b","e","n","e","f","i","t","s">>,
                        MinSpanLen + 1)
           \o <<"\n">> \o Sentence(<<"e","t","h","i","c","s"," ","e","m","p","l","o","y","e","e">>,
                                    SampleLen + 1) }

----------------------------------------------------------------------------
(* main                                                                    *)

Request(target, url, status, found) ==
  [op |-> "request", target |-> target, company |-> ci, url |-> url,
   status |-> status, found |-> found]

Sleep(ms) == [op |-> "sleep", ms |-> ms]

\* the state outside main
DriverIdle ==
  /\ pc = "idle" /\ ci = 0 /\ filing = None /\ content = None
  /\ all_results = <<>> /\ summary_data = <<>>
  /\ artifact = [written |-> FALSE] /\ trace = <<>> /\ error = "none"

\* line 152 and the first iteration of line 154
Init ==
  /\ pc = "list" /\ ci = 1 /\ filing = None /\ content = None
  /\ all_results = <<>> /\ summary_data = <<>>
  /\ artifact = [written |-> FALSE] /\ trace = <<>> /\ error = "none"
  /\ xpc = "idle" /\ html_content = <<>> /\ text = <<>>
  /\ esg = ScanStart
  /\ mpc = "idle" /\ esg_data = <<>> /\ metrics = <<>>

\* `continue`, or the end of the loop body: the next company, or line 205
NextIteration ==
  /\ filing' = None
  /\ content' = None
  /\ IF ci < Len(COMPANIES) THEN pc' = "list" /\ ci' = ci + 1
     ELSE pc' = "summary" /\ ci' = ci

\* an exception nobody catches leaves main
Raise(exception) ==
  /\ pc' = "raised"
  /\ error' = exception
  /\ UNCHANGED <<ci, filing, content>>

\* line 160, line 57: requests.get raises (no connection, a timeout)
ListRaises ==
  /\ pc = "list"
  /\ trace' = Append(trace, Request("submissions", SubmissionsUrl(COMPANIES[ci].cik), 0, 0))
  /\ Raise("ConnectionError")
  /\ UNCHANGED <<all_results, summary_data, artifact, xvars, mvars>>

\* lines 160-164, the response has a non-success status
ListRejected ==
  /\ pc = "list"
  /\ \E status \in ErrorStatuses :
       LET r == get_company_filings([status_code |-> status], COMPANIES[ci].cik, "10-K", 1)
       IN  /\ trace' = Append(trace, Request("submissions",
                                  SubmissionsUrl(COMPANIES[ci].cik), status, Len(r.results)))
           /\ NoFilings(r.results)
           /\ NextIteration
  /\ UNCHANGED <<all_results, summary_data, artifact, error, xvars, mvars>>

\* lines 160-168, the response has status 200
ListAnswered ==
  /\ pc = "list"
  /\ \E json \in SubmissionsJson :
       LET r == get_company_filings([status_code |-> 200, json |-> json],
                                    COMPANIES[ci].cik, "10-K", 1)
       IN  /\ trace' = Append(trace, Request("submissions",
                                  SubmissionsUrl(COMPANIES[ci].cik), 200, Len(r.results)))
           /\ IF r.raised # "none" THEN Raise(r.raised)
              ELSE /\ error' = error
                   /\ IF NoFilings(r.results) THEN NextIteration
                      ELSE /\ filing' = r.results[1]
                           /\ pc' = "pause_short"
                           /\ UNCHANGED <<ci, content>>
  /\ UNCHANGED <<all_results, summary_data, artifact, xvars, mvars>>

\* line 171
PauseShort ==
  /\ pc = "pause_short"
  /\ trace' = Append(trace, Sleep(500))
  /\ pc' = "fetch"
  /\ UNCHANGED <<ci, filing, content, all_results, summary_data, artifact, error, xvars, mvars>>

\* line 175, line 88: requests.get raises
FetchRaises ==
  /\ pc = "fetch"
  /\ trace' = Append(trace, Request("archive",
                        ArchiveUrl(COMPANIES[ci].cik, filing.accession, filing.document), 0, 0))
  /\ Raise("ConnectionError")
  /\ UNCHANGED <<all_results, summary_data, artifact, xvars, mvars>>

\* lines 175-179, any response
FetchAnswered ==
  /\ pc = "fetch"
  /\ \E response \in {[status_code |-> st] : st \in ErrorStatuses}
                     \cup {[status_code |-> 200, text |-> t] : t \in FilingTexts} :
       LET got == get_filing_content(response)
       IN  /\ trace' = Append(trace, Request("archive",
                                  ArchiveUrl(COMPANIES[ci].cik, filing.accession, filing.document),
                                  response.status_code, 0))
           /\ IF NoContent(got) THEN NextIteration
              ELSE /\ content' = got.text
                   /\ pc' = "extract"
                   /\ UNCHANGED <<ci, filing>>
  /\ UNCHANGED <<all_results, summary_data, artifact, error, xvars, mvars>>

\* lines 185-194
ExtractAndAnalyze ==
  /\ pc = "extract"
  /\ LET data == extract_esg_sections(content)
     IN  all_results' = Append(all_results,
                               [company     |-> COMPANIES[ci].company,
                                filing_date |-> filing.date,
                                esg_data    |-> data,
                                metrics     |-> analyze_esg_disclosure(data)])
  /\ pc' = "pause_long"
  /\ UNCHANGED <<ci, filing, content, summary_data, artifact, trace, error, xvars, mvars>>

\* line 203, and the end of the loop body
PauseLong ==
  /\ pc = "pause_long"
  /\ trace' = Append(trace, Sleep(1000))
  /\ NextIteration
  /\ UNCHANGED <<all_results, summary_data, artifact, error, xvars, mvars>>

\* lines 211-220: one row of the summary table
SummaryRow(entry) ==
  LET count(c) == entry.metrics[c].disclosure_count
  IN  [Company       |-> entry.company,
       FilingDate    |-> entry.filing_date,
       Environmental |-> count("Environmental"),
       Social        |-> count("Social"),
       Governance    |-> count("Governance"),
       TotalESG      |-> count("Environmental") + count("Social") + count("Governance")]

\* lines 210-236
Summarise ==
  /\ pc = "summary"
  /\ summary_data' = [i \in 1..Len(all_results) |-> SummaryRow(all_results[i])]
  /\ artifact' = [written |-> TRUE, companies |-> all_results]
  /\ pc' = "done"
  /\ UNCHANGED <<ci, filing, content, all_results, trace, error, xvars, mvars>>

Next ==
  \/ ListRaises
  \/ ListRejected
  \/ ListAnswered
  \/ PauseShort
  \/ FetchRaises
  \/ FetchAnswered
  \/ ExtractAndAnalyze
  \/ PauseLong
  \/ Summarise

Spec == Init /\ [][Next]_vars

----------------------------------------------------------------------------
(* Input documents of SpecExtract                                          *)

\* a document holds at most this many of the short pieces below
MaxSentences == 4

\* and a long sentence is followed by at most this many of them
MaxAfterLong == 1

W_employee == <<"e","m","p","l","o","y","e","e">>

W_Employee == <<"E","m","p","l","o","y","e","e">>

W_employees == <<"e","m","p","l","o","y","e","e","s">>

W_employee_benefits == <<"e","m","p","l","o","y","e","e"," ","b","e","n","e","f","i","t","s">>

W_ethics_employee == <<"e","t","h","i","c","s"," ","e","m","p","l","o","y","e","e">>

ShortPieces ==
  << Sentence(W_employee_benefits, MinSpanLen + 1),   \* two Social keywords, just long enough
     Sentence(W_employee, MinSpanLen),                \* one character too short
     Sentence(W_Employee, MinSpanLen + 10),           \* capitalised keyword
     <<"\n">> \o Sentence(W_employees, MinSpanLen + 1), \* no whole-word keyword, extra whitespace
     W_employee \o <<" ", "x", "x">> >>               \* keyword with no period after it

LongPieces ==
  << Sentence(W_ethics_employee, MaxSpanLen - 1),     \* just short enough, two categories
     Sentence(W_ethics_employee, MaxSpanLen) >>       \* one character too long

RECURSIVE JoinPieces(_, _, _)
JoinPieces(pieces, choice, j) ==
  IF j > Len(choice) THEN <<>>
  ELSE (IF j > 1 THEN <<" ">> ELSE <<>>) \o pieces[choice[j]] \o JoinPieces(pieces, choice, j + 1)

Choices(n, m) == UNION {[1..len -> 1..n] : len \in 0..m}

ExtractInputs ==
  {JoinPieces(ShortPieces, c, 1) : c \in Choices(Len(ShortPieces), MaxSentences)}
  \cup {LongPieces[l] \o (IF Len(c) > 0 THEN <<" ">> ELSE <<>>) \o JoinPieces(ShortPieces, c, 1) :
          l \in 1..Len(LongPieces), c \in Choices(Len(ShortPieces), MaxAfterLong)}

----------------------------------------------------------------------------
(* SpecExtract: extract_esg_sections on every input document               *)

InitExtract ==
  /\ xpc = "start"
  /\ html_content \in ExtractInputs
  /\ text = <<>>
  /\ esg = ScanStart
  /\ mpc = "idle" /\ esg_data = <<>> /\ metrics = <<>>
  /\ DriverIdle

\* lines 98-110
ExtractNormalize ==
  /\ xpc = "start"
  /\ text' = NormalizedText(html_content)
  /\ xpc' = "scan"
  /\ UNCHANGED <<html_content, esg, mvars, dvars>>

\* lines 113-125
ExtractScan ==
  /\ xpc = "scan"
  /\ esg' = ExtractFromText(text)
  /\ xpc' = "done"
  /\ UNCHANGED <<html_content, text, mvars, dvars>>

NextExtract == ExtractNormalize \/ ExtractScan

SpecExtract == InitExtract /\ [][NextExtract]_vars

----------------------------------------------------------------------------
(* SpecMetrics: analyze_esg_disclosure on a family of span lists           *)

\* a span list holds at most this many spans
MaxSpans == 7

\* a span of n characters: a first letter, filler, a period
SpanOfLen(n, first) ==
  [i \in 1..n |-> IF i = 1 THEN first ELSE IF i = n THEN "." ELSE "x"]

FirstLens == {0, 66, 199, 200, 201, 250}

RestLens == {51, 64, 113}

SpanLists ==
  {<<>>} \cup
  {<<SpanOfLen(a, "a")>> \o [i \in 1..(n - 1) |-> SpanOfLen(b, "b")] :
     n \in 1..MaxSpans, a \in FirstLens, b \in RestLens}

\* one category holds the list; each other category is absent or holds no span
MetricsInputs ==
  {[c \in present |-> IF c = holder THEN list ELSE <<>>] :
     holder \in {"Social"}, list \in SpanLists,
     present \in {d \in SUBSET {"Environmental", "Social", "Governance"} : "Social" \in d}}

InitMetrics ==
  /\ mpc = "start"
  /\ esg_data \in MetricsInputs
  /\ metrics = <<>>
  /\ xpc = "idle" /\ html_content = <<>> /\ text = <<>>
  /\ esg = ScanStart
  /\ DriverIdle

\* lines 128-140
Analyze ==
  /\ mpc = "start"
  /\ metrics' = analyze_esg_disclosure(esg_data)
  /\ mpc' = "done"
  /\ UNCHANGED <<esg_data, xvars, dvars>>

NextMetrics == Analyze

SpecMetrics == InitMetrics /\ [][NextMetrics]_vars

----------------------------------------------------------------------------
(* Properties of extract_esg_sections (SpecExtract)                        *)

CategorySet == {Categories[i] : i \in 1..Len(Categories)}

Range(s) == {s[i] : i \in 1..Len(s)}

\* C3: every returned span has a trimmed length strictly between 50 and 500
C3_SpanLengthBounds ==
  \A c \in CategorySet : \A i \in 1..Len(esg.results[c]) :
     /\ Len(Strip(esg.results[c][i])) > 50
     /\ Len(Strip(esg.results[c][i])) < 500

\* a span of 499 characters was returned and a match of exactly 50 was not
C3_Witness ==
  /\ xpc = "done"
  /\ \E s \in Range(esg.results["Governance"]) : Len(s) = 499
  /\ \E m \in Range(FindAll(text, W_employee)) :
        Len(Strip(m)) = 50 /\ Strip(m) \notin Range(esg.results["Social"])

AddedSpans(c) ==
  LET OfCategory(ev) == ev.category = c
      evs == SelectSeq(esg.added, OfCategory)
  IN  [i \in 1..Len(evs) |-> evs[i].span]

\* C4: a category's list holds no string twice; it is the spans in the order they
\* were first added
C4_NoDuplicateSpans ==
  \A c \in CategorySet :
     /\ \A i, j \in 1..Len(esg.results[c]) : i # j => esg.results[c][i] # esg.results[c][j]
     /\ esg.results[c] = AddedSpans(c)

KeptFor(t, c, ki) == {Strip(m) : m \in Range(FirstMatches(FindAll(t, ESG_KEYWORDS[c][ki])))}

\* a returned span that two keywords of its category both matched, and that the
\* document holds twice
C4_Witness ==
  /\ xpc = "done"
  /\ \E s \in Range(esg.results["Social"]) :
        /\ \E k1, k2 \in 1..Len(ESG_KEYWORDS["Social"]) :
              k1 # k2 /\ s \in KeptFor(text, "Social", k1) /\ s \in KeptFor(text, "Social", k2)
        /\ \E m \in 1..Len(FindAll(text, W_employee)) : \E n \in 1..Len(FindAll(text, W_employee)) :
              m # n /\ Strip(FindAll(text, W_employee)[m]) = s
                    /\ Strip(FindAll(text, W_employee)[n]) = s

\* where a period-delimited sentence can begin: the text start, or right after a period
SentenceStarts(t) == {a \in 1..Len(t) : a = 1 \/ t[a - 1] = "."}

HasPeriodFrom(t, a) == \E q \in a..Len(t) : t[q] = "."

\* from a to the next period inclusive
SentenceAt(t, a) == SubSeq(t, a, MinOf({q \in a..Len(t) : t[q] = "."}))

\* k occurs in s as a whole word, ignoring case
ContainsWord(s, k) ==
  \E i \in 1..(Len(s) - Len(k) + 1) :
     /\ \A j \in 1..Len(k) : Lower(s[i + j - 1]) = Lower(k[j])
     /\ (i = 1 \/ ~IsWordChar(s[i - 1]))
     /\ (i + Len(k) > Len(s) \/ ~IsWordChar(s[i + Len(k)]))

\* C5: every span added for a keyword is a whole period-delimited sentence of the
\* text, trimmed, that contains the keyword as a whole word; so nothing is added
\* for an occurrence that no period follows
C5_SpansAreSentences ==
  \A n \in 1..Len(esg.added) :
     LET ev == esg.added[n]
         k  == ESG_KEYWORDS[ev.category][ev.ki]
     IN  \E a \in SentenceStarts(text) :
            /\ HasPeriodFrom(text, a)
            /\ ev.span = Strip(SentenceAt(text, a))
            /\ ContainsWord(ev.span, k)

\* a span taken from the middle of the text, in a text whose last keyword
\* occurrence has no period after it
C5_Witness ==
  /\ xpc = "done"
  /\ \E n \in 1..Len(esg.added) : \E a \in SentenceStarts(text) :
        a > 1 /\ HasPeriodFrom(text, a) /\ esg.added[n].span = Strip(SentenceAt(text, a))
  /\ \E a \in SentenceStarts(text) :
        /\ ~HasPeriodFrom(text, a)
        /\ ContainsWord(SubSeq(text, a, Len(text)), W_employee)
        /\ \A n \in 1..Len(esg.added) :
              ~ContainsWord(esg.added[n].span, SubSeq(text, a + 1, Len(text)))

RECURSIVE SentencesFrom(_, _)
SentencesFrom(t, a) ==
  IF a > Len(t) \/ ~HasPeriodFrom(t, a) THEN <<>>
  ELSE LET s == SentenceAt(t, a) IN <<s>> \o SentencesFrom(t, a + Len(s))

\* the sentences of t that contain k as a whole word, in text order
MatchingSentences(t, k) ==
  LET Matches(s) == ContainsWord(s, k)
  IN  SelectSeq(SentencesFrom(t, 1), Matches)

\* C10: a keyword adds at most 3 spans, each one of its first 3 matching
\* sentences, whatever the length filter and the duplicate test did to those
C10_FirstThreeOnly ==
  \A n \in 1..Len(esg.added) :
     LET ev == esg.added[n]
         ms == MatchingSentences(text, ESG_KEYWORDS[ev.category][ev.ki])
         SameKeyword(o) == o.category = ev.category /\ o.ki = ev.ki
     IN  /\ Len(SelectSeq(esg.added, SameKeyword)) <= 3
         /\ \E j \in 1..Len(ms) : j <= 3 /\ ev.span = Strip(ms[j])

\* three rejected matches (too short, or duplicates) came first, and a fourth
\* sentence of acceptable length that is none of them was not returned
C10_Witness ==
  /\ xpc = "done"
  /\ LET ms == MatchingSentences(text, W_employee)
     IN  /\ Len(ms) >= 4
         /\ Len(Strip(ms[4])) > 50 /\ Len(Strip(ms[4])) < 500
         /\ \A j \in 1..3 : Strip(ms[j]) # Strip(ms[4])
         /\ Len(Strip(ms[1])) <= 50
         /\ Strip(ms[2]) = Strip(ms[3]) /\ Len(Strip(ms[2])) > 50
         /\ Strip(ms[4]) \notin Range(esg.results["Social"])

----------------------------------------------------------------------------
(* Properties of analyze_esg_disclosure (SpecMetrics)                      *)

\* the number a short bit string denotes
RECURSIVE Value(_)
Value(bits) == IF bits = <<>> THEN 0 ELSE 2 * Value(Front(bits)) + Last(bits)

\* v in exactly width binary digits
ToBits(v, width) == [i \in 1..width |-> (v \div 2 ^ (width - i)) % 2]

\* the last 13 digits at most
LowChunk(bits) == SubSeq(bits, IF Len(bits) > 13 THEN Len(bits) - 12 ELSE 1, Len(bits))

HighPart(bits) == SubSeq(bits, 1, Len(bits) - Len(LowChunk(bits)))

\* bits * n + carry, for small n and carry, a chunk of digits at a time
RECURSIVE TimesSmall(_, _, _)
TimesSmall(bits, n, carry) ==
  LET low  == LowChunk(bits)
      v    == Value(low) * n + carry
      base == 2 ^ Len(low)
  IN  IF bits = <<>> THEN Bits(carry)
      ELSE IF v < base THEN TimesSmall(HighPart(bits), n, 0) \o ToBits(v, Len(low))
           ELSE TimesSmall(HighPart(bits), n, v \div base) \o ToBits(v % base, Len(low))

\* bits + n, for a small n
PlusSmall(bits, n) == TimesSmall(bits, 1, n)

\* x <= y, for binary numbers without leading zeros
BitsLeq(x, y) ==
  \/ Len(x) < Len(y)
  \/ /\ Len(x) = Len(y)
     /\ \/ x = y
        \/ \E i \in 1..Len(x) : x[i] < y[i] /\ \A j \in 1..(i - 1) : x[j] = y[j]

\* the double d times the integer n > 0, rounded as Python's float * int is
FloatTimesInt(d, n) ==
  IF d.mant = <<>> THEN FloatZero
  ELSE LET p == TimesSmall(d.mant, n, 0)
           dropped == SubSeq(p, MantBits + 1, Len(p))
           half == dropped # <<>> /\ dropped[1] = 1
                   /\ \A i \in 2..Len(dropped) : dropped[i] = 0
           above == dropped # <<>> /\ dropped[1] = 1
                    /\ \E i \in 2..Len(dropped) : dropped[i] = 1
       IN  RoundNearestEven(SubSeq(p, 1, MantBits), d.frac - Len(dropped), above, half)

\* the double d == the integer s, as Python compares them (exactly)
FloatEqInt(d, s) ==
  IF s = 0 THEN d.mant = <<>>
  ELSE /\ d.frac = MantBits - Len(Bits(s))
       /\ d.mant = Bits(s) \o Zeros(d.frac)

\* d is a double nearest to s / n:  2 * |d * n - s| <= n * ulp(d)
NearestDouble(d, s, n) ==
  IF s = 0 THEN d.mant = <<>>
  ELSE /\ Len(d.mant) = MantBits /\ d.mant[1] = 1
       /\ LET dn2 == TimesSmall(d.mant, 2 * n, 0)
              s2  == Bits(2 * s) \o Zeros(d.frac)
          IN  BitsLeq(dn2, PlusSmall(s2, n)) /\ BitsLeq(s2, PlusSmall(dn2, n))

\* the sample of a non-empty list: the first 200 characters of the first span,
\* then three periods
IsSampleOf(sample, first) ==
  LET kept == IF Len(first) < 200 THEN Len(first) ELSE 200
  IN  /\ Len(sample) = kept + 3
      /\ \A i \in 1..kept : sample[i] = first[i]
      /\ \A i \in 1..3 : sample[kept + i] = "."

\* what C6 says of the count, the sample and the empty list
CountAndSample(c) ==
  LET L == IF c \in DOMAIN esg_data THEN esg_data[c] ELSE <<>>
  IN  /\ metrics[c].disclosure_count = Len(L)
      /\ L = <<>> => metrics[c].avg_length = [int |-> 0] /\ metrics[c].sample = NoDisclosure
      /\ L # <<>> => IsSampleOf(metrics[c].sample, L[1])

\* C6, with the average taken as exact: count, sample, the empty list and the
\* three categories as below, and for every non-empty list avg_length times the
\* length of the list equals the sum of the span lengths
C6_AsStated ==
  mpc = "done" =>
    /\ DOMAIN metrics = {"Environmental", "Social", "Governance"}
    /\ \A c \in DOMAIN metrics :
          /\ CountAndSample(c)
          /\ c \in DOMAIN esg_data /\ esg_data[c] # <<>> =>
                /\ "float" \in DOMAIN metrics[c].avg_length
                /\ FloatEqInt(FloatTimesInt(metrics[c].avg_length.float, Len(esg_data[c])),
                              SumLen(esg_data[c], 1))

\* C6: all three categories are in the metrics; disclosure_count is the length
\* of the list; an empty or missing list has avg_length 0 and the sentinel as
\* sample; a non-empty list has the first 200 characters of its first span and
\* '...' as sample, and its avg_length is a double nearest to sum / length, so
\* that avg_length times the length equals the sum when the length divides it
C6_MetricsOfList ==
  mpc = "done" =>
    /\ DOMAIN metrics = {"Environmental", "Social", "Governance"}
    /\ \A c \in DOMAIN metrics :
          /\ CountAndSample(c)
          /\ c \in DOMAIN esg_data /\ esg_data[c] # <<>> =>
                LET n == Len(esg_data[c])
                    s == SumLen(esg_data[c], 1)
                IN  /\ "float" \in DOMAIN metrics[c].avg_length
                    /\ NearestDouble(metrics[c].avg_length.float, s, n)
                    /\ s % n = 0 => FloatEqInt(FloatTimesInt(metrics[c].avg_length.float, n), s)

\* seven spans, the first longer than the sample, whose mean no double holds,
\* beside an empty category and an absent one
C6_Witness ==
  /\ mpc = "done"
  /\ "Environmental" \notin DOMAIN esg_data
  /\ "Governance" \in DOMAIN esg_data
  /\ Len(esg_data["Social"]) = 7
  /\ Len(esg_data["Social"][1]) > 200
  /\ SumLen(esg_data["Social"], 1) % 7 # 0
  /\ metrics["Environmental"].sample = NoDisclosure

----------------------------------------------------------------------------
(* Properties of main (Spec)                                               *)

\* main has returned, or an exception has left it
RunEnded == pc \in {"done", "raised"}

IsRequest(ev) == ev.op = "request"

\* the requests company c got from one endpoint, as positions of the trace
RequestsOf(c, target) ==
  {n \in 1..Len(trace) : IsRequest(trace[n]) /\ trace[n].company = c /\ trace[n].target = target}

\* a non-success status, or requests.get raised (no status at all)
TransportError(ev) == IsRequest(ev) /\ ev.status # 200

\* C1: a transport error on the listing or on the document request skips only
\* that company: whenever a run in which one happened has ended, every company
\* of the catalog got its listing request and the output artifact was written.
\* (Runs ended by the IndexError of C2 are left aside.)
C1_TransportErrorSkipsOnlyEntity ==
  (/\ RunEnded
   /\ error # "IndexError"
   /\ \E n \in 1..Len(trace) : TransportError(trace[n]))
  => /\ artifact.written
     /\ \A c \in 1..Len(COMPANIES) : RequestsOf(c, "submissions") # {}

\* C2: a 200 submissions response of malformed shape (missing keys, parallel
\* lists of different lengths) makes get_company_filings return a list; it never
\* raises, so no run ends with the IndexError of a short list.
C2_MalformedShapeIsNotAnError ==
  \A n \in 1..Len(trace) :
     (IsRequest(trace[n]) /\ trace[n].target = "submissions" /\ trace[n].status = 200)
     => error # "IndexError"

\* the positions of the companies of all_results in the catalog
CatalogIndex(company) == CHOOSE c \in 1..Len(COMPANIES) : COMPANIES[c].company = company

\* the listing of company c returned a filing and its document fetch did not fail
ListedAndFetched(c) ==
  /\ \E n \in RequestsOf(c, "submissions") : trace[n].found >= 1
  /\ \E n \in RequestsOf(c, "archive") : ~TransportError(trace[n])

\* C7: when main returns, the run result holds exactly the companies whose
\* listing returned a filing and whose document fetch did not fail, once each and
\* in catalog order, and the summary has one row per such company whose total is
\* the sum of its three category counts.
C7_RunResultHoldsFetchedEntities ==
  pc = "done" =>
    /\ \A c \in 1..Len(COMPANIES) :
          (\E i \in 1..Len(all_results) : all_results[i].company = COMPANIES[c].company)
          <=> ListedAndFetched(c)
    /\ \A i, j \in 1..Len(all_results) :
          i < j => CatalogIndex(all_results[i].company) < CatalogIndex(all_results[j].company)
    /\ Len(summary_data) = Len(all_results)
    /\ \A i \in 1..Len(summary_data) :
          /\ summary_data[i].Company = all_results[i].company
          /\ summary_data[i].TotalESG =
               all_results[i].metrics["Environmental"].disclosure_count
               + all_results[i].metrics["Social"].disclosure_count
               + all_results[i].metrics["Governance"].disclosure_count

\* C8: no request is repeated and companies are served in turn: a company gets at
\* most one listing and at most one document request, the document request
\* follows a listing of that company that found a filing, requests never go back
\* to an earlier company, and once the run has ended every company of the
\* catalog has got exactly one listing request.
C8_EachRequestExactlyOnce ==
  /\ \A c \in 1..Len(COMPANIES) :
        /\ Cardinality(RequestsOf(c, "submissions")) <= 1
        /\ Cardinality(RequestsOf(c, "archive")) <= 1
        /\ \A n \in RequestsOf(c, "archive") :
              \E m \in RequestsOf(c, "submissions") : m < n /\ trace[m].found >= 1
  /\ \A m, n \in 1..Len(trace) :
        (m < n /\ IsRequest(trace[m]) /\ IsRequest(trace[n]))
        => trace[m].company <= trace[n].company
  /\ RunEnded => \A c \in 1..Len(COMPANIES) : Cardinality(RequestsOf(c, "submissions")) = 1

\* C9: between any two consecutive requests of a run there is a sleep, also when
\* a company is skipped: no request directly follows another request.
C9_SleepBetweenRequests ==
  \A n \in 1..(Len(trace) - 1) : ~(IsRequest(trace[n]) /\ IsRequest(trace[n + 1]))

====
